---- MODULE Spec2Model ----
(***************************************************************************)
(* Metering ledger of meet-sophie: the usage charger (api/usage.js) and    *)
(* the Stripe webhook reconciler (api/stripe-webhook.js) acting on the two *)
(* Supabase tables user_usage and user_subscriptions.  Every request is a  *)
(* stateless serverless invocation; a handler is split at each awaited     *)
(* database call, so that requests interleave exactly where the code can.  *)
(***************************************************************************)
EXTENDS Integers, FiniteSets, Sequences, TLC

(* ------------------------------ bounds --------------------------------- *)
MaxReports == 3
MaxEvents == 2

(* --------------------------- configuration ----------------------------- *)
DEFAULT_FREE_SECONDS_TOTAL == 120
MAX_SECONDS_PER_CALL == 60 * 60

\* the accounts of the two tables
Users == {"u1", "u2"}
\* the account that signs in where one account suffices
Callers == {"u1"}
Workers == {1, 2}

\* seconds_used values a client sends in the body of a usage report
SecondsUsed == {50, 3600}

Min(a, b) == IF a <= b THEN a ELSE b
Max(a, b) == IF a >= b THEN a ELSE b

STRIPE_PRICE_ID_STARTER == "price_starter"
STRIPE_PRICE_ID_PLUS == "price_plus"

\* includedSecondsForPlan is applied to an already lower-cased, trimmed plan
includedSecondsForPlan_swapped(plan) ==
  IF plan = "starter" THEN 300 * 60
  ELSE IF plan = "plus" THEN 120 * 60
  ELSE 0

includedSecondsForPlan(plan) ==
  IF plan = "starter" THEN 120 * 60
  ELSE IF plan = "plus" THEN 300 * 60
  ELSE 0

topupSecondsForPack_smallest(pack) ==
  IF pack = 10 THEN 140 * 60
  ELSE IF pack = 20 THEN 320 * 60
  ELSE 60 * 60

topupSecondsForPack(pack) ==
  IF pack = 5 THEN 60 * 60
  ELSE IF pack = 10 THEN 140 * 60
  ELSE IF pack = 20 THEN 320 * 60
  ELSE 0

planFromPriceId(priceId) ==
  IF priceId = STRIPE_PRICE_ID_STARTER THEN "starter"
  ELSE IF priceId = STRIPE_PRICE_ID_PLUS THEN "plus"
  ELSE ""

(* ------------------------------ tables --------------------------------- *)
\* the result of .maybeSingle() when no row matches
NoRow == [absent |-> TRUE]

UsageRow(ft, fu, pt, pu, tb) ==
  [free_seconds_total |-> ft, free_seconds_used |-> fu,
   paid_seconds_total |-> pt, paid_seconds_used |-> pu,
   topup_seconds_balance |-> tb]

DefaultUsageRow_900 == UsageRow(900, 0, 0, 0, 0)

DefaultUsageRow == UsageRow(DEFAULT_FREE_SECONDS_TOTAL, 0, 0, 0, 0)

(* --------------------------- usage charger ----------------------------- *)
\* request bodies of a usage report: seconds_used below, at and above the
\* limits, and a body without the field
Bodies ==
  {[seconds_used |-> n] : n \in {-5, 0, 50, 3600, 3601, 5000}}
    \cup {[client |-> "web"]}

\* const { seconds_used } = req.body || {};  seconds_used || 0
SecondsOf(body) ==
  IF "seconds_used" \in DOMAIN body THEN body.seconds_used ELSE 0

ClampSeconds_noCap(seconds_used) == Max(0, seconds_used)

ClampSeconds_noFloor(seconds_used) == Min(MAX_SECONDS_PER_CALL, seconds_used)

\* sec = Math.max(0, Math.min(60 * 60, Number(seconds_used || 0)))
ClampSeconds(seconds_used) == Max(0, Min(MAX_SECONDS_PER_CALL, seconds_used))

freeRemaining(u) == Max(0, u.free_seconds_total - u.free_seconds_used)
paidRemaining(u) == Max(0, u.paid_seconds_total - u.paid_seconds_used)
topupRemaining(u) == Max(0, u.topup_seconds_balance)
totalRemaining(u) == freeRemaining(u) + paidRemaining(u) + topupRemaining(u)

NoRemainingTime_strict(u) == totalRemaining(u) < 0

\* if (totalRemaining <= 0) return 402
NoRemainingTime(u) == totalRemaining(u) <= 0

chargeFree_ofTotal(u, sec) == Min(u.free_seconds_total, sec)

chargeFree(u, sec) == Min(freeRemaining(u), sec)

chargePaid_first(u, sec) == Min(paidRemaining(u), sec)

chargePaid(u, sec) == Min(paidRemaining(u), sec - chargeFree(u, sec))

chargeTopup(u, sec) ==
  Min(topupRemaining(u), sec - chargeFree(u, sec) - chargePaid(u, sec))

\* toCharge after the three draw-downs
toChargeLeft(u, sec) ==
  sec - chargeFree(u, sec) - chargePaid(u, sec) - chargeTopup(u, sec)

\* the fields written by the update of user_usage
ChargedRow_overdraw(cur, u, sec) ==
  [cur EXCEPT
     !.free_seconds_used = Min(u.free_seconds_total, u.free_seconds_used + chargeFree(u, sec)),
     !.paid_seconds_used = Min(u.paid_seconds_total, u.paid_seconds_used + chargePaid(u, sec)),
     !.topup_seconds_balance = u.topup_seconds_balance - sec]

ChargedRow(cur, u, sec) ==
  [cur EXCEPT
     !.free_seconds_used = Min(u.free_seconds_total, u.free_seconds_used + chargeFree(u, sec)),
     !.paid_seconds_used = Min(u.paid_seconds_total, u.paid_seconds_used + chargePaid(u, sec)),
     !.topup_seconds_balance = Max(0, u.topup_seconds_balance - chargeTopup(u, sec))]

RemainingOf_freeOnly(u2) == Max(0, u2.free_seconds_total - u2.free_seconds_used)

\* rem computed from the row returned by the update
RemainingOf(u2) ==
  Max(0, u2.free_seconds_total - u2.free_seconds_used)
  + Max(0, u2.paid_seconds_total - u2.paid_seconds_used)
  + Max(0, u2.topup_seconds_balance)

(* ------------------------- provider events ----------------------------- *)
CHECKOUT_COMPLETED == "checkout.session.completed"
SUBSCRIPTION_UPDATED == "customer.subscription.updated"
SUBSCRIPTION_DELETED == "customer.subscription.deleted"

\* A verified Stripe event, flattened: session.metadata.user_id, session.mode,
\* session.customer, session.subscription, session.metadata.plan,
\* session.metadata.topup_pack for a checkout; sub.id (as subscription),
\* sub.status and sub.current_period_end for a lifecycle event.
Event(id, type, user_id, mode, subscription, plan, pack, status, period_end) ==
  [id |-> id, type |-> type, user_id |-> user_id, mode |-> mode,
   customer |-> "cus_1", subscription |-> subscription, plan |-> plan,
   topup_pack |-> pack, status |-> status, current_period_end |-> period_end]

Events ==
  { Event("evt_plus", CHECKOUT_COMPLETED, "u1", "subscription", "sub_1", "plus", 0, "", 0),
    Event("evt_starter", CHECKOUT_COMPLETED, "u1", "subscription", "sub_2", "", 0, "", 0),
    Event("evt_topup", CHECKOUT_COMPLETED, "u1", "payment", "", "", 5, "", 0),
    Event("evt_updated", SUBSCRIPTION_UPDATED, "", "", "sub_1", "", 0, "past_due", 1),
    Event("evt_deleted", SUBSCRIPTION_DELETED, "", "", "sub_1", "", 0, "", 0) }

\* further deliveries, handled one at a time: the other packs, a plan without
\* included seconds, the other statuses a subscription takes
MoreEvents ==
  { Event("evt_topup10", CHECKOUT_COMPLETED, "u1", "payment", "", "", 10, "", 0),
    Event("evt_topup20", CHECKOUT_COMPLETED, "u1", "payment", "", "", 20, "", 0),
    Event("evt_topup7", CHECKOUT_COMPLETED, "u1", "payment", "", "", 7, "", 0),
    Event("evt_nopack", CHECKOUT_COMPLETED, "u1", "payment", "", "", 0, "", 0),
    Event("evt_unknown", CHECKOUT_COMPLETED, "u1", "subscription", "sub_3", "pro", 0, "", 0),
    Event("evt_active", SUBSCRIPTION_UPDATED, "", "", "sub_1", "", 0, "active", 2),
    Event("evt_trialing", SUBSCRIPTION_UPDATED, "", "", "sub_1", "", 0, "trialing", 2),
    Event("evt_unpaid", SUBSCRIPTION_UPDATED, "", "", "sub_1", "", 0, "unpaid", 2) }

AllEvents == Events \cup MoreEvents

\* the secret shared with Stripe and the stripe-signature header: a header
\* names the payload it was computed for and the secret it was computed with
STRIPE_WEBHOOK_SECRET == "whsec_live"

NoSignature == [missing |-> TRUE]

Sign(e, secret) == [payload |-> e.id, secret |-> secret]

\* the headers a delivery may carry: none, Stripe's own, one made with
\* another secret, and Stripe's header of another payload
Signatures(e) ==
  { NoSignature,
    Sign(e, STRIPE_WEBHOOK_SECRET),
    Sign(e, "whsec_guess"),
    [payload |-> "evt_other", secret |-> STRIPE_WEBHOOK_SECRET] }

constructEvent_present(e, sig, secret) == sig # NoSignature

\* if (!sig) return 400; stripe.webhooks.constructEvent throws unless the
\* header is the signature of this payload under the secret
constructEvent(e, sig, secret) ==
  /\ sig # NoSignature
  /\ sig = Sign(e, secret)

NoEvent == [id |-> "none"]

\* the object stripe.subscriptions.retrieve(id) returns: metadata.plan and
\* items.data[0].price.id
StripeSubscription(id) ==
  IF id = "sub_1" THEN [plan |-> "plus", price_id |-> STRIPE_PRICE_ID_PLUS]
  ELSE IF id = "sub_4" THEN [plan |-> "plus", price_id |-> STRIPE_PRICE_ID_STARTER]
  ELSE IF id = "sub_5" THEN [plan |-> "0", price_id |-> STRIPE_PRICE_ID_PLUS]
  ELSE IF id = "sub_6" THEN [plan |-> "", price_id |-> "price_other"]
  ELSE [plan |-> "", price_id |-> STRIPE_PRICE_ID_STARTER]

\* subscription checkouts whose plan sources differ: the session names the
\* plan, only the subscription's metadata does, only its price does, none does
PlanEvents ==
  { Event("evt_plus", CHECKOUT_COMPLETED, "u1", "subscription", "sub_1", "plus", 0, "", 0),
    Event("evt_override", CHECKOUT_COMPLETED, "u1", "subscription", "sub_1", "starter", 0, "", 0),
    Event("evt_unknown", CHECKOUT_COMPLETED, "u1", "subscription", "sub_3", "pro", 0, "", 0),
    Event("evt_submeta", CHECKOUT_COMPLETED, "u1", "subscription", "sub_4", "", 0, "", 0),
    Event("evt_starter", CHECKOUT_COMPLETED, "u1", "subscription", "sub_2", "", 0, "", 0),
    Event("evt_zero", CHECKOUT_COMPLETED, "u1", "subscription", "sub_5", "0", 0, "", 0),
    Event("evt_noprice", CHECKOUT_COMPLETED, "u1", "subscription", "sub_6", "", 0, "", 0),
    Event("evt_nosub", CHECKOUT_COMPLETED, "u1", "subscription", "", "", 0, "", 0) }

ResolvePlan_guess(e, retrieved) ==
  IF e.plan # "" /\ e.plan # "0" THEN e.plan
  ELSE IF e.subscription = "" THEN e.plan
  ELSE IF ~retrieved THEN "starter"
  ELSE LET subObj == StripeSubscription(e.subscription)
       IN IF subObj.plan # "" /\ subObj.plan # "0" THEN subObj.plan
          ELSE planFromPriceId(subObj.price_id)

ResolvePlan_lastWins(e, retrieved) ==
  IF e.subscription = "" \/ ~retrieved THEN e.plan
  ELSE LET subObj == StripeSubscription(e.subscription)
       IN IF planFromPriceId(subObj.price_id) # ""
            THEN planFromPriceId(subObj.price_id)
          ELSE IF subObj.plan # "" /\ subObj.plan # "0" THEN subObj.plan
          ELSE e.plan

\* plan resolution of the subscription checkout; retrieved says whether
\* stripe.subscriptions.retrieve returned (TRUE) or threw (FALSE)
ResolvePlan(e, retrieved) ==
  IF e.plan # "" /\ e.plan # "0" THEN e.plan
  ELSE IF e.subscription = "" THEN e.plan
  ELSE IF ~retrieved THEN e.plan
  ELSE LET subObj == StripeSubscription(e.subscription)
       IN IF subObj.plan # "" /\ subObj.plan # "0" THEN subObj.plan
          ELSE planFromPriceId(subObj.price_id)

NeedsRetrieve(e) == (e.plan = "" \/ e.plan = "0") /\ e.subscription # ""

\* the plan sources the handler reads, in the order it reads them
Consulted(e, retrieved) ==
  <<"session">>
    \o (IF NeedsRetrieve(e) THEN <<"subscription">> ELSE <<>>)
    \o (IF /\ NeedsRetrieve(e) /\ retrieved
           /\ StripeSubscription(e.subscription).plan \in {"", "0"}
          THEN <<"price">> ELSE <<>>)

isActive_activeOnly(status) == status = "active"

isActive(status) == status = "active" \/ status = "trialing"

RefuseActivation_never(includedSeconds) == FALSE

\* if (!includedSeconds) return 500 "No included seconds resolved"
RefuseActivation(includedSeconds) == includedSeconds = 0

\* row written by the upsert of the subscription checkout
ActivatedSubscription(e, plan) ==
  [stripe_customer_id |-> e.customer,
   stripe_subscription_id |-> e.subscription,
   status |-> "active", is_active |-> TRUE,
   plan |-> plan, current_period_end |-> 0]

CheckoutUsageUpdate_resetFree(cur, includedSeconds) ==
  [cur EXCEPT !.paid_seconds_total = includedSeconds,
              !.paid_seconds_used = 0,
              !.free_seconds_used = 0]

CheckoutUsageUpdate_add(cur, includedSeconds) ==
  [cur EXCEPT !.paid_seconds_total = cur.paid_seconds_total + includedSeconds,
              !.paid_seconds_used = 0]

\* update({paid_seconds_total: includedSeconds, paid_seconds_used: 0})
CheckoutUsageUpdate(cur, includedSeconds) ==
  [cur EXCEPT !.paid_seconds_total = includedSeconds,
              !.paid_seconds_used = 0]

\* update({topup_seconds_balance: (usage.topup_seconds_balance || 0) + addSeconds})
TopupUsageUpdate_set(cur, sel, addSeconds) ==
  [cur EXCEPT !.topup_seconds_balance = addSeconds]

TopupUsageUpdate(cur, sel, addSeconds) ==
  [cur EXCEPT !.topup_seconds_balance = sel.topup_seconds_balance + addSeconds]

UpdatedSubscription_keepStatus(cur, e) ==
  [cur EXCEPT !.stripe_customer_id = e.customer,
              !.is_active = isActive(e.status),
              !.current_period_end = e.current_period_end]

\* update of customer.subscription.updated
UpdatedSubscription(cur, e) ==
  [cur EXCEPT !.stripe_customer_id = e.customer,
              !.status = e.status,
              !.is_active = isActive(e.status),
              !.current_period_end = e.current_period_end]

CanceledSubscription_keepActive(cur) ==
  [cur EXCEPT !.status = "canceled", !.current_period_end = 0]

\* update of customer.subscription.deleted
CanceledSubscription(cur) ==
  [cur EXCEPT !.status = "canceled", !.is_active = FALSE,
              !.current_period_end = 0]

UsersOfSubscription_any(subs, id) == {u \in Users : subs[u] # NoRow}

\* .eq("stripe_subscription_id", id).maybeSingle() on user_subscriptions
UsersOfSubscription(subs, id) ==
  {u \in Users : subs[u] # NoRow /\ subs[u].stripe_subscription_id = id}

(* ------------------------------- state --------------------------------- *)
VARIABLES
  user_usage,          \* table user_usage, keyed by user_id
  user_subscriptions,  \* table user_subscriptions, keyed by user_id
  pc,                  \* position of each invocation
  req,                 \* the request an invocation handles
  usage,               \* the row an invocation selected from user_usage
  target,              \* the user_id a lifecycle event resolved to
  resp,                \* the response an invocation sends
  pre,                 \* both tables as they were when the request arrived
  reports,             \* number of usage reports received so far
  events,              \* number of event deliveries received so far
  delivered,           \* ids of the events delivered so far
  acked,               \* ids of the events acknowledged with status 200
  charged,             \* per user, sum of charged_seconds acknowledged
  lastReq,             \* the last request answered and its status
  error,               \* the store call of an invocation that returned an error
  tracking             \* the outcome of an invocation's insert into analytics_events

vars == <<user_usage, user_subscriptions, pc, req, usage, target, resp, pre,
          reports, events, delivered, acked, charged, lastReq, error, tracking>>

tables == <<user_usage, user_subscriptions>>
requests == <<reports, events>>
ghosts == <<delivered, acked, charged, lastReq>>

\* user_usage holds at most one row per user_id: an insert for a user_id that
\* already has a row returns an error
InsertConflicts(row) == row # NoRow

NoReq == [kind |-> "none"]
NoResp == [status |-> 0]

Init ==
  /\ user_usage = [u \in Users |-> NoRow]
  /\ user_subscriptions = [u \in Users |-> NoRow]
  /\ pc = [w \in Workers |-> "idle"]
  /\ req = [w \in Workers |-> NoReq]
  /\ usage = [w \in Workers |-> NoRow]
  /\ target = [w \in Workers |-> ""]
  /\ resp = [w \in Workers |-> NoResp]
  /\ pre = [w \in Workers |-> NoRow]
  /\ reports = 0
  /\ events = 0
  /\ delivered = {}
  /\ acked = {}
  /\ charged = [u \in Users |-> 0]
  /\ lastReq = [id |-> "none", status |-> 0]
  /\ error = [w \in Workers |-> ""]
  /\ tracking = [w \in Workers |-> ""]

\* a response is sent in the step that decides it; nothing runs in between
Quiet == \A w \in Workers : pc[w] # "done"

\* invocations are interchangeable: a request takes the first free one
Free(w) ==
  /\ pc[w] = "idle"
  /\ \A v \in Workers : pc[v] = "idle" => w <= v

Finish(w, r) ==
  /\ pc' = [pc EXCEPT ![w] = "done"]
  /\ resp' = [resp EXCEPT ![w] = r]

Goto(w, label) ==
  /\ pc' = [pc EXCEPT ![w] = label]
  /\ UNCHANGED resp

(* ----------------------- api/usage.js: handler ------------------------- *)
UsageIgnored == [status |-> 200, ok |-> TRUE, ignored |-> TRUE]
UsageExhausted == [status |-> 402, remaining_seconds |-> 0]
Failed == [status |-> 500]
Received == [status |-> 200, received |-> TRUE]
BadSignature == [status |-> 400]

UsageCharged(u, sec, u2) ==
  [status |-> 200, ok |-> TRUE,
   charged_seconds |-> sec - toChargeLeft(u, sec),
   buckets |-> [free |-> chargeFree(u, sec), paid |-> chargePaid(u, sec),
                topup |-> chargeTopup(u, sec)],
   remaining_seconds |-> RemainingOf(u2),
   usage |-> u2]

\* lines 14-25: clamp, ignore a zero report, authenticate
UsageStart(w, u, seconds_used) ==
  /\ Quiet /\ Free(w) /\ reports < MaxReports
  /\ reports' = reports + 1
  /\ req' = [req EXCEPT ![w] = [kind |-> "usage", id |-> "usage", user_id |-> u,
                                seconds_used |-> seconds_used,
                                sec |-> ClampSeconds(seconds_used)]]
  /\ pre' = [pre EXCEPT ![w] = [usage |-> user_usage, subs |-> user_subscriptions]]
  /\ IF ClampSeconds(seconds_used) = 0
       THEN Finish(w, UsageIgnored)
       ELSE Goto(w, "usage_select")
  /\ UNCHANGED <<tables, usage, target, events, ghosts, error, tracking>>

\* lines 28-63: select the row; an existing row without remaining time is 402
UsageSelect(w) ==
  /\ Quiet /\ pc[w] = "usage_select"
  /\ LET row == user_usage[req[w].user_id]
     IN /\ usage' = [usage EXCEPT ![w] = row]
        /\ IF row = NoRow THEN Goto(w, "usage_insert")
           ELSE IF NoRemainingTime(row) THEN Finish(w, UsageExhausted)
           ELSE Goto(w, "usage_update")
  /\ UNCHANGED <<tables, req, target, pre, requests, ghosts, error, tracking>>

\* lines 36-63: insert the default row (user_id is the key of user_usage)
UsageInsert(w) ==
  /\ Quiet /\ pc[w] = "usage_insert"
  /\ LET u == req[w].user_id
     IN IF InsertConflicts(user_usage[u])
          THEN /\ Finish(w, Failed)
               /\ UNCHANGED <<user_usage, usage>>
          ELSE /\ user_usage' = [user_usage EXCEPT ![u] = DefaultUsageRow]
               /\ usage' = [usage EXCEPT ![w] = DefaultUsageRow]
               /\ IF NoRemainingTime(DefaultUsageRow)
                    THEN Finish(w, UsageExhausted)
                    ELSE Goto(w, "usage_update")
  /\ UNCHANGED <<user_subscriptions, req, target, pre, requests, ghosts, error, tracking>>

\* lines 65-112: compute the charge from the selected row, update, respond
UsageUpdate(w) ==
  /\ Quiet /\ pc[w] = "usage_update"
  /\ LET u == req[w].user_id
         u2 == ChargedRow(user_usage[u], usage[w], req[w].sec)
     IN /\ user_usage' = [user_usage EXCEPT ![u] = u2]
        /\ Finish(w, UsageCharged(usage[w], req[w].sec, u2))
  /\ UNCHANGED <<user_subscriptions, req, usage, target, pre, requests, ghosts, error, tracking>>

(* -------------------- api/stripe-webhook.js: handler ------------------- *)
\* what supabase.from("analytics_events").insert(...) does in safeTrack: the
\* row is inserted, the call returns an error, or the call throws
TrackOutcomes == {"inserted", "error", "throws"}

AfterTrack_strict(outcome) == IF outcome = "inserted" THEN Received ELSE Failed

\* safeTrack ignores the returned error and catches what is thrown; the
\* handler then answers {received: true}
AfterTrack(outcome) == Received

\* await safeTrack(...); return res.status(200).json({ received: true })
SafeTrack(w) ==
  \E outcome \in TrackOutcomes :
    /\ tracking' = [tracking EXCEPT ![w] = outcome]
    /\ Finish(w, AfterTrack(outcome))

OnMissingUserId_retry == Failed

\* lines 192-196: a checkout session without metadata.user_id is logged and
\* answered 200 { received: true }
OnMissingUserId == Received

\* lines 188-242 and 316-324, 380-388, 435-437: dispatch on the event type;
\* a subscription checkout resolves its plan before the first write
WebhookStart(w, e, retrieved, sig) ==
  /\ Quiet /\ Free(w) /\ events < MaxEvents
  /\ retrieved \/ NeedsRetrieve(e)
  /\ events' = events + 1
  /\ delivered' = IF constructEvent(e, sig, STRIPE_WEBHOOK_SECRET)
                    THEN delivered \cup {e.id} ELSE delivered
  /\ pre' = [pre EXCEPT ![w] = [usage |-> user_usage, subs |-> user_subscriptions]]
  /\ LET plan == ResolvePlan(e, retrieved)
         includedSeconds == includedSecondsForPlan(plan)
     IN /\ req' = [req EXCEPT ![w] =
                     [kind |-> "webhook", id |-> e.id, user_id |-> e.user_id,
                      event |-> e, sig |-> sig, plan |-> plan,
                      retrieved |-> retrieved,
                      consulted |-> Consulted(e, retrieved),
                      includedSeconds |-> includedSeconds,
                      addSeconds |-> topupSecondsForPack(e.topup_pack)]]
        /\ IF ~constructEvent(e, sig, STRIPE_WEBHOOK_SECRET)
             THEN Finish(w, BadSignature)
           ELSE IF e.type = CHECKOUT_COMPLETED THEN
             IF e.user_id = "" THEN Finish(w, OnMissingUserId)
             ELSE IF e.mode = "subscription" THEN
               IF RefuseActivation(includedSeconds) THEN Finish(w, Failed)
               ELSE Goto(w, "checkout_upsert")
             ELSE IF e.mode = "payment" THEN
               IF topupSecondsForPack(e.topup_pack) <= 0 THEN Finish(w, Received)
               ELSE Goto(w, "topup_select")
             ELSE Finish(w, Received)
           ELSE IF e.type = SUBSCRIPTION_UPDATED THEN Goto(w, "updated_find")
           ELSE IF e.type = SUBSCRIPTION_DELETED THEN Goto(w, "deleted_find")
           ELSE Finish(w, Received)
  /\ UNCHANGED <<tables, usage, target, reports, acked, charged, lastReq, error, tracking>>

\* lines 244-263: upsert of user_subscriptions on user_id
CheckoutUpsert(w) ==
  /\ Quiet /\ pc[w] = "checkout_upsert"
  /\ user_subscriptions' =
       [user_subscriptions EXCEPT ![req[w].user_id] =
          ActivatedSubscription(req[w].event, req[w].plan)]
  /\ Goto(w, "checkout_select")
  /\ UNCHANGED <<user_usage, req, usage, target, pre, requests, ghosts, error, tracking>>

\* lines 265-277: does the usage row exist
CheckoutSelect(w) ==
  /\ Quiet /\ pc[w] = "checkout_select"
  /\ usage' = [usage EXCEPT ![w] = user_usage[req[w].user_id]]
  /\ IF user_usage[req[w].user_id] = NoRow
       THEN Goto(w, "checkout_insert")
       ELSE Goto(w, "checkout_update")
  /\ UNCHANGED <<tables, req, target, pre, requests, ghosts, error, tracking>>

\* lines 278-289 and 305-312: insert the row with the plan's allotment
CheckoutInsert(w) ==
  /\ Quiet /\ pc[w] = "checkout_insert"
  /\ LET u == req[w].user_id
     IN IF InsertConflicts(user_usage[u])
          THEN /\ Finish(w, Failed)
               /\ UNCHANGED <<user_usage, tracking>>
          ELSE /\ user_usage' = [user_usage EXCEPT ![u] =
                    UsageRow(DEFAULT_FREE_SECONDS_TOTAL, 0, req[w].includedSeconds, 0, 0)]
               /\ SafeTrack(w)
  /\ UNCHANGED <<user_subscriptions, req, usage, target, pre, requests, ghosts, error>>

\* lines 290-312: set the allotment and reset paid_seconds_used
CheckoutUpdate(w) ==
  /\ Quiet /\ pc[w] = "checkout_update"
  /\ LET u == req[w].user_id
     IN user_usage' = [user_usage EXCEPT ![u] =
          CheckoutUsageUpdate(user_usage[u], req[w].includedSeconds)]
  /\ SafeTrack(w)
  /\ UNCHANGED <<user_subscriptions, req, usage, target, pre, requests, ghosts, error>>

\* lines 326-338: select topup_seconds_balance
TopupSelect(w) ==
  /\ Quiet /\ pc[w] = "topup_select"
  /\ usage' = [usage EXCEPT ![w] = user_usage[req[w].user_id]]
  /\ IF user_usage[req[w].user_id] = NoRow
       THEN Goto(w, "topup_insert")
       ELSE Goto(w, "topup_update")
  /\ UNCHANGED <<tables, req, target, pre, requests, ghosts, error, tracking>>

\* lines 338-350 and 364-370: insert the row holding the purchased seconds
TopupInsert(w) ==
  /\ Quiet /\ pc[w] = "topup_insert"
  /\ LET u == req[w].user_id
     IN IF InsertConflicts(user_usage[u])
          THEN /\ Finish(w, Failed)
               /\ UNCHANGED <<user_usage, tracking>>
          ELSE /\ user_usage' = [user_usage EXCEPT ![u] =
                    UsageRow(DEFAULT_FREE_SECONDS_TOTAL, 0, 0, 0, req[w].addSeconds)]
               /\ SafeTrack(w)
  /\ UNCHANGED <<user_subscriptions, req, usage, target, pre, requests, ghosts, error>>

\* lines 351-370: write the selected balance plus the purchased seconds
TopupUpdate(w) ==
  /\ Quiet /\ pc[w] = "topup_update"
  /\ LET u == req[w].user_id
     IN user_usage' = [user_usage EXCEPT ![u] =
          TopupUsageUpdate(user_usage[u], usage[w], req[w].addSeconds)]
  /\ SafeTrack(w)
  /\ UNCHANGED <<user_subscriptions, req, usage, target, pre, requests, ghosts, error>>

\* lines 390-407: find the user of the subscription id
UpdatedFind(w) ==
  /\ Quiet /\ pc[w] = "updated_find"
  /\ LET found == UsersOfSubscription(user_subscriptions, req[w].event.subscription)
     IN IF found = {}
          THEN /\ Finish(w, Received)
               /\ UNCHANGED target
          ELSE IF Cardinality(found) > 1
          THEN /\ Finish(w, Failed)
               /\ UNCHANGED target
          ELSE /\ target' = [target EXCEPT ![w] = CHOOSE u \in found : TRUE]
               /\ Goto(w, "updated_update")
  /\ UNCHANGED <<tables, req, usage, pre, requests, ghosts, error, tracking>>

\* lines 409-431: update status, is_active and period end of the user's row
UpdatedUpdate(w) ==
  /\ Quiet /\ pc[w] = "updated_update"
  /\ user_subscriptions' =
       [user_subscriptions EXCEPT ![target[w]] =
          UpdatedSubscription(user_subscriptions[target[w]], req[w].event)]
  /\ SafeTrack(w)
  /\ UNCHANGED <<user_usage, req, usage, target, pre, requests, ghosts, error>>

\* lines 439-455: find the user of the subscription id
DeletedFind(w) ==
  /\ Quiet /\ pc[w] = "deleted_find"
  /\ LET found == UsersOfSubscription(user_subscriptions, req[w].event.subscription)
     IN IF found = {}
          THEN /\ Finish(w, Received)
               /\ UNCHANGED target
          ELSE IF Cardinality(found) > 1
          THEN /\ Finish(w, Failed)
               /\ UNCHANGED target
          ELSE /\ target' = [target EXCEPT ![w] = CHOOSE u \in found : TRUE]
               /\ Goto(w, "deleted_update")
  /\ UNCHANGED <<tables, req, usage, pre, requests, ghosts, error, tracking>>

\* lines 457-475: cancel the user's row
DeletedUpdate(w) ==
  /\ Quiet /\ pc[w] = "deleted_update"
  /\ user_subscriptions' =
       [user_subscriptions EXCEPT ![target[w]] =
          CanceledSubscription(user_subscriptions[target[w]])]
  /\ SafeTrack(w)
  /\ UNCHANGED <<user_usage, req, usage, target, pre, requests, ghosts, error>>

(* ---------------- api/session.js: entitlement check --------------------- *)
SESSION_FREE_SECONDS_TOTAL == 900
PREMIUM_REMAINING == 999999

\* !!sub?.is_active || sub?.status === "active" || sub?.status === "trialing"
isPremium(sub) ==
  /\ sub # NoRow
  /\ (sub.is_active \/ sub.status = "active" \/ sub.status = "trialing")

\* Math.max(0, (usage?.free_seconds_total ?? 900) - (usage?.free_seconds_used ?? 0))
sessionRemaining(row) ==
  IF row = NoRow THEN SESSION_FREE_SECONDS_TOTAL
  ELSE Max(0, row.free_seconds_total - row.free_seconds_used)

SessionExhausted == [status |-> 402, remaining_seconds |-> 0, is_premium |-> FALSE]

SessionGranted(remaining, premium) ==
  [status |-> 200, remaining_seconds |-> remaining, is_premium |-> premium]

\* lines 413-414: authenticate
SessionStart(w, u) ==
  /\ Quiet /\ Free(w)
  /\ req' = [req EXCEPT ![w] = [kind |-> "session", id |-> "session", user_id |-> u]]
  /\ pre' = [pre EXCEPT ![w] = [usage |-> user_usage, subs |-> user_subscriptions]]
  /\ Goto(w, "session_sub")
  /\ UNCHANGED <<tables, usage, target, requests, ghosts, error, tracking>>

\* lines 419-430: select is_active, status from user_subscriptions; a premium
\* account skips the ledger check
SessionSub(w) ==
  /\ Quiet /\ pc[w] = "session_sub"
  /\ IF isPremium(user_subscriptions[req[w].user_id])
       THEN Finish(w, SessionGranted(PREMIUM_REMAINING, TRUE))
       ELSE Goto(w, "session_usage")
  /\ UNCHANGED <<tables, req, usage, target, pre, requests, ghosts, error, tracking>>

\* lines 426-433: the lookup returns an error or throws; the handler logs a
\* warning and goes on with isPremium = false
SessionSubFails(w) ==
  /\ Quiet /\ pc[w] = "session_sub"
  /\ error' = [error EXCEPT ![w] = "session_sub"]
  /\ Goto(w, "session_usage")
  /\ UNCHANGED <<tables, req, usage, target, pre, requests, ghosts, tracking>>

\* lines 438-458: select free_seconds_total, free_seconds_used from user_usage
SessionUsage(w) ==
  /\ Quiet /\ pc[w] = "session_usage"
  /\ LET remaining == sessionRemaining(user_usage[req[w].user_id])
     IN IF remaining <= 0 THEN Finish(w, SessionExhausted)
        ELSE Finish(w, SessionGranted(remaining, FALSE))
  /\ UNCHANGED <<tables, req, usage, target, pre, requests, ghosts, error, tracking>>

(* --------------------------- store failures ---------------------------- *)
OnStoreError_ledgerIgnored(step) ==
  IF step \in {"checkout_select", "checkout_insert", "checkout_update"}
    THEN Received ELSE Failed

OnStoreError_findIsEmpty(step) ==
  IF step \in {"updated_find", "deleted_find"} THEN Received ELSE Failed

\* if (subErr) / (uFindErr) / (uInsErr) / (uUpdErr) / (findErr) / (updErr)
\* return res.status(500)
OnStoreError(step) == Failed

\* every awaited call on user_usage or user_subscriptions may return an error:
\* the handler then writes nothing at that call and answers 500
StoreFails(w) ==
  /\ Quiet /\ pc[w] \notin {"idle", "done", "session_sub"}
  /\ error' = [error EXCEPT ![w] = pc[w]]
  /\ Finish(w, OnStoreError(pc[w]))
  /\ UNCHANGED <<tables, req, usage, target, pre, requests, ghosts, tracking>>

(* ----------------------------- responses ------------------------------- *)
ChargedSeconds(r) == IF "charged_seconds" \in DOMAIN r THEN r.charged_seconds ELSE 0

\* the response leaves the invocation; the invocation ends
Respond(w) ==
  /\ pc[w] = "done"
  /\ pc' = [pc EXCEPT ![w] = "idle"]
  /\ lastReq' = [id |-> req[w].id, status |-> resp[w].status]
  /\ acked' = IF req[w].kind = "webhook" /\ resp[w].status = 200
                THEN acked \cup {req[w].id} ELSE acked
  /\ charged' = IF req[w].kind = "usage"
                  THEN [charged EXCEPT ![req[w].user_id] = @ + ChargedSeconds(resp[w])]
                  ELSE charged
  /\ req' = [req EXCEPT ![w] = NoReq]
  /\ usage' = [usage EXCEPT ![w] = NoRow]
  /\ target' = [target EXCEPT ![w] = ""]
  /\ resp' = [resp EXCEPT ![w] = NoResp]
  /\ pre' = [pre EXCEPT ![w] = NoRow]
  /\ error' = [error EXCEPT ![w] = ""]
  /\ tracking' = [tracking EXCEPT ![w] = ""]
  /\ UNCHANGED <<tables, requests, delivered>>

(* --------------------------- specifications ---------------------------- *)
\* the steps of the requests in flight
Run(w) ==
  \/ UsageSelect(w)
  \/ UsageInsert(w)
  \/ UsageUpdate(w)
  \/ CheckoutUpsert(w)
  \/ CheckoutSelect(w)
  \/ CheckoutInsert(w)
  \/ CheckoutUpdate(w)
  \/ TopupSelect(w)
  \/ TopupInsert(w)
  \/ TopupUpdate(w)
  \/ UpdatedFind(w)
  \/ UpdatedUpdate(w)
  \/ DeletedFind(w)
  \/ DeletedUpdate(w)
  \/ Respond(w)

\* requests run concurrently, interleaved at their database calls
Next ==
  \E w \in Workers :
    \/ \E u \in Callers, s \in SecondsUsed : UsageStart(w, u, s)
    \/ \E e \in Events, retrieved \in BOOLEAN :
         WebhookStart(w, e, retrieved, Sign(e, STRIPE_WEBHOOK_SECRET))
    \/ Run(w)

Spec == Init /\ [][Next]_vars

AllIdle == \A w \in Workers : pc[w] = "idle"

\* a request that arrives while no other invocation is in flight
UsageAlone(w, u, seconds_used) == AllIdle /\ UsageStart(w, u, seconds_used)

WebhookAlone(w, e, retrieved, sig) == AllIdle /\ WebhookStart(w, e, retrieved, sig)

\* requests arrive one after the other, each answered before the next
NextSeq ==
  \E w \in Workers :
    \/ \E u \in Callers, s \in SecondsUsed : UsageAlone(w, u, s)
    \/ \E e \in AllEvents, retrieved \in BOOLEAN :
         WebhookAlone(w, e, retrieved, Sign(e, STRIPE_WEBHOOK_SECRET))
    \/ Run(w)

SpecSeq == Init /\ [][NextSeq]_vars

\* requests one after the other, webhook deliveries from any sender
NextSig ==
  \E w \in Workers :
    \/ \E u \in Callers, s \in SecondsUsed : UsageAlone(w, u, s)
    \/ \E e \in Events, retrieved \in BOOLEAN :
         \E sig \in Signatures(e) : WebhookAlone(w, e, retrieved, sig)
    \/ Run(w)

SpecSig == Init /\ [][NextSig]_vars

\* requests one after the other, on a store whose calls may fail
NextFault ==
  \E w \in Workers :
    \/ \E u \in Callers, s \in SecondsUsed : UsageAlone(w, u, s)
    \/ \E e \in Events, retrieved \in BOOLEAN :
         WebhookAlone(w, e, retrieved, Sign(e, STRIPE_WEBHOOK_SECRET))
    \/ Run(w)
    \/ StoreFails(w)

SpecFault == Init /\ [][NextFault]_vars

SessionAlone(w, u) == AllIdle /\ SessionStart(w, u)

\* the steps of an entitlement check in flight
SessionRun(w) ==
  \/ SessionSub(w)
  \/ SessionSubFails(w)
  \/ SessionUsage(w)

\* usage reports, billing events and entitlement checks one after the other,
\* on a store whose calls may fail
NextSession ==
  \E w \in Workers :
    \/ \E u \in Callers, s \in SecondsUsed : UsageAlone(w, u, s)
    \/ \E e \in Events, retrieved \in BOOLEAN :
         WebhookAlone(w, e, retrieved, Sign(e, STRIPE_WEBHOOK_SECRET))
    \/ \E u \in Callers : SessionAlone(w, u)
    \/ Run(w)
    \/ SessionRun(w)
    \/ StoreFails(w)

SpecSession == Init /\ [][NextSession]_vars

\* the top-up purchases Stripe reports
TopupEvents ==
  {e \in AllEvents : /\ e.type = CHECKOUT_COMPLETED /\ e.mode = "payment"
                     /\ e.topup_pack \in {5, 10, 20}}

\* the steps of the requests that work on user_usage only
RunLedger(w) ==
  \/ UsageSelect(w)
  \/ UsageInsert(w)
  \/ UsageUpdate(w)
  \/ TopupSelect(w)
  \/ TopupInsert(w)
  \/ TopupUpdate(w)
  \/ Respond(w)

\* usage reports and top-up events running concurrently on user_usage
NextRace ==
  \E w \in Workers :
    \/ \E u \in Callers, s \in SecondsUsed : UsageStart(w, u, s)
    \/ \E e \in TopupEvents :
         WebhookStart(w, e, TRUE, Sign(e, STRIPE_WEBHOOK_SECRET))
    \/ RunLedger(w)

SpecRace == Init /\ [][NextRace]_vars

\* usage reports with any body and top-up events, one after the other
NextBody ==
  \E w \in Workers :
    \/ \E u \in Callers, body \in Bodies : UsageAlone(w, u, SecondsOf(body))
    \/ \E e \in TopupEvents :
         WebhookAlone(w, e, TRUE, Sign(e, STRIPE_WEBHOOK_SECRET))
    \/ RunLedger(w)

SpecBody == Init /\ [][NextBody]_vars

\* the steps of a subscription checkout
RunCheckout(w) ==
  \/ CheckoutUpsert(w)
  \/ CheckoutSelect(w)
  \/ CheckoutInsert(w)
  \/ CheckoutUpdate(w)
  \/ Respond(w)

\* subscription checkouts with every combination of plan sources, one after
\* the other; the retrieval of the subscription object may throw
NextPlan ==
  \E w \in Workers :
    \/ \E e \in PlanEvents, retrieved \in BOOLEAN :
         WebhookAlone(w, e, retrieved, Sign(e, STRIPE_WEBHOOK_SECRET))
    \/ RunCheckout(w)

SpecPlan == Init /\ [][NextPlan]_vars

\* checkout sessions that carry no metadata.user_id
AnonymousEvents ==
  { Event("evt_anon", CHECKOUT_COMPLETED, "", "subscription", "sub_1", "plus", 0, "", 0),
    Event("evt_anon_topup", CHECKOUT_COMPLETED, "", "payment", "", "", 5, "", 0) }

\* requests one after the other, some of the checkouts without an account id
NextAnonymous ==
  \E w \in Workers :
    \/ \E u \in Callers, s \in SecondsUsed : UsageAlone(w, u, s)
    \/ \E e \in Events \cup AnonymousEvents, retrieved \in BOOLEAN :
         WebhookAlone(w, e, retrieved, Sign(e, STRIPE_WEBHOOK_SECRET))
    \/ Run(w)

SpecAnonymous == Init /\ [][NextAnonymous]_vars

\* the account has checked out the plus plan with subscription sub_1: the
\* state the checkout of evt_plus leaves on a fresh account
InitSubscribed ==
  LET e == CHOOSE x \in Events : x.id = "evt_plus"
  IN /\ user_subscriptions =
          [u \in Users |-> IF u = e.user_id
                             THEN ActivatedSubscription(e, e.plan) ELSE NoRow]
     /\ user_usage =
          [u \in Users |-> IF u = e.user_id
                             THEN UsageRow(DEFAULT_FREE_SECONDS_TOTAL, 0,
                                           includedSecondsForPlan(e.plan), 0, 0)
                             ELSE NoRow]
     /\ pc = [w \in Workers |-> "idle"]
     /\ req = [w \in Workers |-> NoReq]
     /\ usage = [w \in Workers |-> NoRow]
     /\ target = [w \in Workers |-> ""]
     /\ resp = [w \in Workers |-> NoResp]
     /\ pre = [w \in Workers |-> NoRow]
     /\ reports = 0
     /\ events = 0
     /\ delivered = {e.id}
     /\ acked = {e.id}
     /\ charged = [u \in Users |-> 0]
     /\ lastReq = [id |-> e.id, status |-> 200]
     /\ error = [w \in Workers |-> ""]
     /\ tracking = [w \in Workers |-> ""]

\* what arrives next: the checkout of a new subscription sub_2 and the
\* lifecycle events of the replaced subscription sub_1
LateEvents == {e \in Events : e.id \in {"evt_starter", "evt_updated", "evt_deleted"}}

\* the steps of a checkout on an existing ledger and of the lifecycle events
RunLate(w) ==
  \/ CheckoutUpsert(w)
  \/ CheckoutSelect(w)
  \/ CheckoutUpdate(w)
  \/ UpdatedFind(w)
  \/ UpdatedUpdate(w)
  \/ DeletedFind(w)
  \/ DeletedUpdate(w)
  \/ Respond(w)

\* the new checkout and the late lifecycle events run concurrently
NextLate ==
  \E w \in Workers :
    \/ \E e \in LateEvents, retrieved \in BOOLEAN :
         WebhookStart(w, e, retrieved, Sign(e, STRIPE_WEBHOOK_SECRET))
    \/ RunLate(w)

SpecLate == InitSubscribed /\ [][NextLate]_vars

\* deliveries about two accounts: a checkout and a lifecycle event for each
\* subscription; sub_1 belongs to u1 and sub_9 to u2
AccountEvents ==
  { Event("evt_plus", CHECKOUT_COMPLETED, "u1", "subscription", "sub_1", "plus", 0, "", 0),
    Event("evt_deleted", SUBSCRIPTION_DELETED, "", "", "sub_1", "", 0, "", 0),
    Event("evt_starter2", CHECKOUT_COMPLETED, "u2", "subscription", "sub_9", "starter", 0, "", 0),
    Event("evt_updated2", SUBSCRIPTION_UPDATED, "", "", "sub_9", "", 0, "past_due", 1) }

\* the steps of a usage report, a subscription checkout and a lifecycle event
RunAccounts(w) ==
  \/ UsageSelect(w)
  \/ UsageInsert(w)
  \/ UsageUpdate(w)
  \/ CheckoutUpsert(w)
  \/ CheckoutSelect(w)
  \/ CheckoutInsert(w)
  \/ CheckoutUpdate(w)
  \/ UpdatedFind(w)
  \/ UpdatedUpdate(w)
  \/ DeletedFind(w)
  \/ DeletedUpdate(w)
  \/ Respond(w)

\* requests of both accounts run concurrently: u2 reports usage while
\* billing events of both accounts arrive
NextAccounts ==
  \E w \in Workers :
    \/ \E u \in Users \ Callers : UsageStart(w, u, MAX_SECONDS_PER_CALL)
    \/ \E e \in AccountEvents :
         WebhookStart(w, e, TRUE, Sign(e, STRIPE_WEBHOOK_SECRET))
    \/ RunAccounts(w)

SpecAccounts == Init /\ [][NextAccounts]_vars

(* ------------------------------ helpers -------------------------------- *)
\* a usage report of a positive amount that has just been answered
ReportDone(w) == pc[w] = "done" /\ req[w].kind = "usage" /\ req[w].sec >= 1

\* the ledger the report found: the stored row, or the defaults it created
Before(w) ==
  IF pre[w].usage[req[w].user_id] = NoRow THEN DefaultUsageRow
  ELSE pre[w].usage[req[w].user_id]

NonPremiumReport(w) == ReportDone(w) /\ ~isPremium(pre[w].subs[req[w].user_id])

\* a subscription checkout that has just been answered
CheckoutDone(w) ==
  /\ pc[w] = "done" /\ req[w].kind = "webhook"
  /\ req[w].event.type = CHECKOUT_COMPLETED
  /\ req[w].event.user_id # ""
  /\ req[w].event.mode = "subscription"

RECURSIVE AddedSeconds(_)
AddedSeconds(S) ==
  IF S = {} THEN 0
  ELSE LET e == CHOOSE x \in S : TRUE
       IN topupSecondsForPack(e.topup_pack) + AddedSeconds(S \ {e})

\* the top-up purchases of a user among the events delivered so far
Purchases(u) ==
  {e \in AllEvents : e.id \in delivered /\ e.type = CHECKOUT_COMPLETED
                  /\ e.mode = "payment" /\ e.user_id = u}

(* ------------------------------- claims -------------------------------- *)

\* C1: in every reachable state every ledger has free_used <= free_total,
\* paid_used <= paid_total and topup_balance >= 0, under any interleaving of
\* usage reports and billing events.
C1_LedgerInvariant ==
  \A u \in Users :
    user_usage[u] # NoRow =>
      /\ user_usage[u].free_seconds_used <= user_usage[u].free_seconds_total
      /\ user_usage[u].paid_seconds_used <= user_usage[u].paid_seconds_total
      /\ user_usage[u].topup_seconds_balance >= 0

\* C2: concurrent usage reports on an account that no billing event touched,
\* charging together at most the free allotment, are all reflected in the
\* ledger once they are answered: remaining = initial remaining - charged.
C2_NoLostCharge ==
  \A u \in Users :
    (AllIdle /\ delivered = {} /\ user_usage[u] # NoRow
      /\ charged[u] <= DEFAULT_FREE_SECONDS_TOTAL)
    => RemainingOf(user_usage[u]) = DEFAULT_FREE_SECONDS_TOTAL - charged[u]

\* C3: a report of N seconds, 1 <= N <= 3600, on a non-premium account whose
\* remaining is at least N is accepted, charged_seconds = N and the persisted
\* remaining is the remaining before minus N.
C3_ChargeInFull ==
  \A w \in Workers :
    (NonPremiumReport(w) /\ req[w].sec <= 3600
      /\ RemainingOf(Before(w)) >= req[w].sec)
    => /\ resp[w].status = 200
       /\ "charged_seconds" \in DOMAIN resp[w]
       /\ resp[w].charged_seconds = req[w].sec
       /\ RemainingOf(user_usage[req[w].user_id])
            = RemainingOf(Before(w)) - req[w].sec

C3_Witness ==
  \E w \in Workers :
    /\ NonPremiumReport(w) /\ resp[w].status = 200
    /\ RemainingOf(Before(w)) >= req[w].sec
    /\ RemainingOf(user_usage[req[w].user_id]) < RemainingOf(Before(w))
    /\ pre[w].usage[req[w].user_id] # NoRow

\* C4: a report of N seconds on a non-premium account with 0 < remaining < N
\* is accepted, charged_seconds = remaining, the persisted remaining is 0 and
\* the uncharged rest is kept nowhere: the row holds its five fields, every
\* bucket is exactly empty and no balance is negative.
C4_ChargeCapped ==
  \A w \in Workers :
    (NonPremiumReport(w) /\ RemainingOf(Before(w)) > 0
      /\ RemainingOf(Before(w)) < req[w].sec)
    => LET row == user_usage[req[w].user_id]
       IN /\ resp[w].status = 200
          /\ "charged_seconds" \in DOMAIN resp[w]
          /\ resp[w].charged_seconds = RemainingOf(Before(w))
          /\ resp[w].remaining_seconds = 0
          /\ RemainingOf(row) = 0
          /\ DOMAIN row = DOMAIN DefaultUsageRow
          /\ row.free_seconds_used = row.free_seconds_total
          /\ row.paid_seconds_used = row.paid_seconds_total
          /\ row.topup_seconds_balance = 0

C4_Witness ==
  \E w \in Workers :
    /\ NonPremiumReport(w) /\ resp[w].status = 200
    /\ RemainingOf(Before(w)) > 0
    /\ RemainingOf(Before(w)) < req[w].sec
    /\ resp[w].charged_seconds < req[w].sec

\* C5: a report of a positive amount on a non-premium account whose remaining
\* is 0 is answered 402 with remaining_seconds 0 and changes no table.
C5_ExhaustedRejected ==
  \A w \in Workers :
    (NonPremiumReport(w) /\ RemainingOf(Before(w)) = 0)
    => /\ resp[w] = [status |-> 402, remaining_seconds |-> 0]
       /\ user_usage = pre[w].usage
       /\ user_subscriptions = pre[w].subs

C5_Witness ==
  \E w \in Workers :
    /\ NonPremiumReport(w) /\ RemainingOf(Before(w)) = 0
    /\ resp[w].status = 402

\* C6: an accepted charge draws free, then paid, then top-up: each bucket
\* takes min(its remaining, what is still to charge), the row is written
\* accordingly, paid is charged only when free ends empty and top-up only when
\* free and paid end empty; free 10, paid 5, top-up 100 charged 12 gives
\* free 10, paid 2, top-up 0.
C6_DrawDownOrder ==
  /\ \A w \in Workers :
       (ReportDone(w) /\ resp[w].status = 200)
       => LET b == Before(w)
              row == user_usage[req[w].user_id]
              fromFree == resp[w].buckets.free
              fromPaid == resp[w].buckets.paid
              fromTopup == resp[w].buckets.topup
          IN /\ fromFree = Min(b.free_seconds_total - b.free_seconds_used, req[w].sec)
             /\ fromPaid = Min(b.paid_seconds_total - b.paid_seconds_used,
                               req[w].sec - fromFree)
             /\ fromTopup = Min(b.topup_seconds_balance,
                                req[w].sec - fromFree - fromPaid)
             /\ row.free_seconds_used = b.free_seconds_used + fromFree
             /\ row.paid_seconds_used = b.paid_seconds_used + fromPaid
             /\ row.topup_seconds_balance = b.topup_seconds_balance - fromTopup
             /\ fromPaid > 0 => row.free_seconds_used = row.free_seconds_total
             /\ fromTopup > 0 => /\ row.free_seconds_used = row.free_seconds_total
                                 /\ row.paid_seconds_used = row.paid_seconds_total
  /\ LET ex == UsageRow(10, 0, 5, 0, 100)
     IN /\ chargeFree(ex, 12) = 10
        /\ chargePaid(ex, 12) = 2
        /\ chargeTopup(ex, 12) = 0

C6_Witness ==
  \E w \in Workers :
    /\ ReportDone(w) /\ resp[w].status = 200
    /\ resp[w].buckets.paid > 0
    /\ resp[w].buckets.topup > 0

\* C7: a report of a positive amount on an account whose subscription is
\* active or trialing is answered with charged 0 and the premium flag, and
\* leaves free_used, paid_used and topup_balance as they were.
C7_PremiumBypass ==
  \A w \in Workers :
    (ReportDone(w) /\ isPremium(pre[w].subs[req[w].user_id]))
    => /\ resp[w].status = 200
       /\ "premium" \in DOMAIN resp[w]
       /\ ChargedSeconds(resp[w]) = 0
       /\ user_usage[req[w].user_id] = pre[w].usage[req[w].user_id]

\* C8: a top-up purchase is credited once however often its event is
\* delivered: the balance never exceeds the seconds of the purchases made.
C8_TopupOnce ==
  \A u \in Users :
    user_usage[u] # NoRow =>
      user_usage[u].topup_seconds_balance <= AddedSeconds(Purchases(u))

\* C9: a subscription checkout event applied again right after it was applied
\* leaves the ledger and the subscription row as the first application left
\* them.
C9_CheckoutReplay ==
  \A w \in Workers :
    (CheckoutDone(w) /\ resp[w].status = 200
      /\ lastReq = [id |-> req[w].id, status |-> 200])
    => /\ user_usage = pre[w].usage
       /\ user_subscriptions = pre[w].subs

C9_Witness ==
  \E w \in Workers :
    /\ CheckoutDone(w) /\ resp[w].status = 200
    /\ lastReq = [id |-> req[w].id, status |-> 200]
    /\ user_usage[req[w].user_id].paid_seconds_total = req[w].includedSeconds

\* C10: a subscription checkout event delivered again, after it was
\* acknowledged and is still the account's subscription, does not change the
\* ledger: paid seconds consumed since are not handed back.
C10_ResetOnce ==
  \A w \in Workers :
    (CheckoutDone(w) /\ resp[w].status = 200 /\ req[w].id \in acked
      /\ pre[w].subs[req[w].user_id] # NoRow
      /\ pre[w].subs[req[w].user_id].stripe_subscription_id
           = req[w].event.subscription)
    => user_usage[req[w].user_id] = pre[w].usage[req[w].user_id]

\* a top-up checkout that has just been answered
TopupDone(w) ==
  /\ pc[w] = "done" /\ req[w].kind = "webhook"
  /\ req[w].event.type = CHECKOUT_COMPLETED
  /\ req[w].event.user_id # ""
  /\ req[w].event.mode = "payment"

\* C11: a top-up checkout of pack 5, 10 or 20 adds exactly 3600, 8400 or
\* 19200 seconds to topup_balance and leaves the other four fields alone; an
\* account without a ledger gets one with free_total 120, no usage, no paid
\* allotment and the added seconds as balance.
C11_TopupCredit ==
  \A w \in Workers :
    (TopupDone(w) /\ req[w].event.topup_pack \in {5, 10, 20})
    => LET u == req[w].user_id
           old == pre[w].usage[u]
           added == CASE req[w].event.topup_pack = 5 -> 3600
                      [] req[w].event.topup_pack = 10 -> 8400
                      [] req[w].event.topup_pack = 20 -> 19200
       IN /\ resp[w].status = 200
          /\ user_usage[u] =
               IF old = NoRow THEN UsageRow(120, 0, 0, 0, added)
               ELSE UsageRow(old.free_seconds_total, old.free_seconds_used,
                             old.paid_seconds_total, old.paid_seconds_used,
                             old.topup_seconds_balance + added)

C11_Witness ==
  \E w \in Workers :
    /\ TopupDone(w) /\ req[w].event.topup_pack = 10
    /\ pre[w].usage[req[w].user_id] # NoRow
    /\ pre[w].usage[req[w].user_id].topup_seconds_balance > 0
    /\ pre[w].usage[req[w].user_id].free_seconds_used > 0
    /\ user_usage[req[w].user_id].topup_seconds_balance
         = pre[w].usage[req[w].user_id].topup_seconds_balance + 8400

\* a lifecycle event that has just been answered
LifecycleDone(w, type) ==
  /\ pc[w] = "done" /\ req[w].kind = "webhook"
  /\ req[w].event.type = type

\* the users whose stored row carried the event's subscription id on arrival
Tracked(w) == UsersOfSubscription(pre[w].subs, req[w].event.subscription)

\* C12: customer.subscription.deleted for a stored subscription id sets the
\* row to canceled, is_active false, period end null, keeps its other fields
\* and leaves the whole ledger and every other row unchanged.
C12_DeletedCancels ==
  \A w \in Workers :
    (LifecycleDone(w, SUBSCRIPTION_DELETED) /\ Tracked(w) # {})
    => /\ resp[w].status = 200
       /\ user_usage = pre[w].usage
       /\ \A u \in Users :
            IF u \in Tracked(w)
              THEN /\ user_subscriptions[u].status = "canceled"
                   /\ user_subscriptions[u].is_active = FALSE
                   /\ user_subscriptions[u].current_period_end = 0
                   /\ user_subscriptions[u].plan = pre[w].subs[u].plan
                   /\ user_subscriptions[u].stripe_subscription_id
                        = pre[w].subs[u].stripe_subscription_id
                   /\ user_subscriptions[u].stripe_customer_id
                        = pre[w].subs[u].stripe_customer_id
              ELSE user_subscriptions[u] = pre[w].subs[u]

C12_Witness ==
  \E w \in Workers :
    /\ LifecycleDone(w, SUBSCRIPTION_DELETED) /\ Tracked(w) # {}
    /\ \E u \in Tracked(w) :
         /\ pre[w].subs[u].is_active
         /\ user_subscriptions[u].status = "canceled"
         /\ user_usage[u] # NoRow
         /\ user_usage[u].paid_seconds_total > 0

\* C13: a subscription checkout whose plan is starter or plus writes the
\* subscription row {active, is_active, plan, customer id, subscription id},
\* sets paid_total to 7200 or 18000 and paid_used to 0 whatever it was, and
\* keeps free_total, free_used and topup_balance of an existing ledger.
C13_CheckoutActivates ==
  \A w \in Workers :
    (CheckoutDone(w) /\ req[w].plan \in {"starter", "plus"})
    => LET u == req[w].user_id
           old == pre[w].usage[u]
           included == IF req[w].plan = "starter" THEN 7200 ELSE 18000
       IN /\ resp[w].status = 200
          /\ user_subscriptions[u] =
               [stripe_customer_id |-> req[w].event.customer,
                stripe_subscription_id |-> req[w].event.subscription,
                status |-> "active", is_active |-> TRUE,
                plan |-> req[w].plan, current_period_end |-> 0]
          /\ user_usage[u].paid_seconds_total = included
          /\ user_usage[u].paid_seconds_used = 0
          /\ old # NoRow =>
               /\ user_usage[u].free_seconds_total = old.free_seconds_total
               /\ user_usage[u].free_seconds_used = old.free_seconds_used
               /\ user_usage[u].topup_seconds_balance = old.topup_seconds_balance

C13_Witness ==
  \E w \in Workers :
    /\ CheckoutDone(w) /\ req[w].plan = "starter" /\ resp[w].status = 200
    /\ pre[w].usage[req[w].user_id] # NoRow
    /\ pre[w].usage[req[w].user_id].paid_seconds_used > 0
    /\ pre[w].usage[req[w].user_id].paid_seconds_total = 18000
    /\ user_usage[req[w].user_id].paid_seconds_used = 0

\* C14: a subscription checkout for which no plan with included seconds is
\* resolved is answered 500 and changes neither table; no subscription row
\* ever carries a plan without included seconds.
C14_NoPlanFails ==
  /\ \A w \in Workers :
       (CheckoutDone(w) /\ req[w].plan \notin {"starter", "plus"})
       => /\ resp[w].status = 500
          /\ user_usage = pre[w].usage
          /\ user_subscriptions = pre[w].subs
  /\ \A u \in Users :
       user_subscriptions[u] # NoRow =>
         user_subscriptions[u].plan \in {"starter", "plus"}

C14_Witness ==
  \E w \in Workers :
    /\ CheckoutDone(w) /\ req[w].plan = "pro" /\ resp[w].status = 500
    /\ pre[w].subs[req[w].user_id] # NoRow
    /\ user_subscriptions[req[w].user_id].plan = "plus"
    /\ user_usage[req[w].user_id].paid_seconds_total = 18000

PaidTotal(row) == IF row = NoRow THEN 0 ELSE row.paid_seconds_total

C15_Synced ==
  \A w \in Workers :
    (LifecycleDone(w, SUBSCRIPTION_UPDATED) /\ Tracked(w) # {})
    => /\ resp[w].status = 200
       /\ user_usage = pre[w].usage
       /\ \A u \in Tracked(w) :
            /\ user_subscriptions[u].status = req[w].event.status
            /\ user_subscriptions[u].is_active
                 = (req[w].event.status \in {"active", "trialing"})
            /\ user_subscriptions[u].current_period_end
                 = req[w].event.current_period_end

C15_PaidTotalStep ==
  \A u \in Users :
    PaidTotal(user_usage'[u]) # PaidTotal(user_usage[u])
    => \E w \in Workers :
         /\ pc[w] \in {"checkout_insert", "checkout_update"}
         /\ req[w].user_id = u
         /\ pc'[w] = "done"

\* C15: customer.subscription.updated for a stored subscription id sets the
\* row's status, is_active = (status is active or trialing) and period end and
\* leaves the ledger unchanged; paid_total changes in no step other than the
\* ledger write of a subscription checkout.
C15_UpdatedSync == [][C15_Synced' /\ C15_PaidTotalStep]_vars

C15_Witness ==
  \E w \in Workers :
    /\ LifecycleDone(w, SUBSCRIPTION_UPDATED) /\ Tracked(w) # {}
    /\ req[w].event.status = "trialing"
    /\ \E u \in Tracked(w) :
         /\ user_subscriptions[u].is_active
         /\ user_usage[u] # NoRow
         /\ user_usage[u].paid_seconds_total > 0

\* C16: in every subscription row, is_active is true exactly when status is
\* active or trialing.
C16_IsActiveDerived ==
  \A u \in Users :
    user_subscriptions[u] # NoRow =>
      (user_subscriptions[u].is_active
         <=> user_subscriptions[u].status \in {"active", "trialing"})

C16_Witness ==
  \E u \in Users :
    /\ user_subscriptions[u] # NoRow
    /\ user_subscriptions[u].status = "trialing"
    /\ user_subscriptions[u].is_active
    /\ lastReq = [id |-> "evt_trialing", status |-> 200]

\* C17: when a subscription's checkout event and a lifecycle event of the
\* same subscription (deleted, or updated to a status that is not active) have
\* both been delivered once and acknowledged, in whichever order, the row
\* holds the status the lifecycle event dictates.
C17_OrderTolerant ==
  \A c \in AllEvents, l \in AllEvents :
    ( /\ c.type = CHECKOUT_COMPLETED /\ c.mode = "subscription"
      /\ l.type \in {SUBSCRIPTION_UPDATED, SUBSCRIPTION_DELETED}
      /\ l.subscription = c.subscription
      /\ ~isActive(l.status)
      /\ AllIdle /\ events = 2
      /\ delivered = {c.id, l.id} /\ acked = {c.id, l.id} )
    => /\ user_subscriptions[c.user_id] # NoRow
       /\ user_subscriptions[c.user_id].status
            = IF l.type = SUBSCRIPTION_DELETED THEN "canceled" ELSE l.status

\* a delivery whose stripe-signature header is missing or does not verify
Unverified(w) ==
  /\ req[w].kind = "webhook"
  /\ \/ req[w].sig = NoSignature
     \/ req[w].sig.secret # "whsec_live"
     \/ req[w].sig.payload # req[w].event.id

\* C18: a delivery whose signature is missing or does not verify is answered
\* 400 in its first step: it never stands at a store call, has read no row,
\* and both tables are as they were on arrival.
C18_UnverifiedRejected ==
  \A w \in Workers :
    Unverified(w)
    => /\ pc[w] = "done"
       /\ resp[w].status = 400
       /\ usage[w] = NoRow /\ target[w] = ""
       /\ user_usage = pre[w].usage
       /\ user_subscriptions = pre[w].subs

C18_Witness ==
  \E w \in Workers :
    /\ Unverified(w) /\ pc[w] = "done"
    /\ req[w].sig # NoSignature
    /\ req[w].sig.secret = "whsec_live"
    /\ req[w].event.id = "evt_deleted"
    /\ user_subscriptions["u1"] # NoRow
    /\ user_subscriptions["u1"].status = "active"

\* a billing event one of whose store calls returned an error
EventFailed(w) ==
  /\ pc[w] = "done" /\ req[w].kind = "webhook"
  /\ error[w] # ""

\* C19: a billing event one of whose calls on user_subscriptions or user_usage
\* returned an error is answered 500, whichever call it was; an event answered
\* 200 had no failed call, and no table changes in the failing step.
C19_StoreFailureReported ==
  \A w \in Workers :
    /\ EventFailed(w) => resp[w].status = 500
    /\ (pc[w] = "done" /\ req[w].kind = "webhook" /\ resp[w].status = 200)
         => error[w] = ""

C19_Witness ==
  \E w \in Workers :
    /\ EventFailed(w) /\ error[w] = "deleted_find"
    /\ resp[w].status = 500
    /\ user_subscriptions["u1"] # NoRow
    /\ user_subscriptions["u1"].is_active

\* an entitlement check that has just been answered
SessionDone(w) == pc[w] = "done" /\ req[w].kind = "session"

\* C20: an entitlement check whose ledger read succeeded answers 402 with
\* remaining_seconds 0 and is_premium false when the account is not premium
\* and has no seconds left in any bucket; an account that is premium
\* (is_active, or status active or trialing) is never answered 402, whatever
\* its ledger holds.
C20_SessionGate ==
  \A w \in Workers :
    SessionDone(w)
    => LET u == req[w].user_id
           sub == pre[w].subs[u]
           row == pre[w].usage[u]
       IN /\ ( /\ error[w] # "session_usage"
               /\ (sub = NoRow \/ (~sub.is_active /\ sub.status \notin {"active", "trialing"}))
               /\ row # NoRow
               /\ (row.free_seconds_total - row.free_seconds_used)
                    + (row.paid_seconds_total - row.paid_seconds_used)
                    + row.topup_seconds_balance <= 0 )
             => resp[w] = [status |-> 402, remaining_seconds |-> 0, is_premium |-> FALSE]
          /\ ( /\ sub # NoRow
               /\ (sub.is_active \/ sub.status \in {"active", "trialing"}) )
             => resp[w].status # 402

\* C21: when top-up events, each delivered once and acknowledged, and at most
\* one usage report have run on an account in any interleaving, the seconds
\* left are the defaults plus every purchase minus what the report charged:
\* neither a credit nor the charge is lost.
C21_TopupRace ==
  \A u \in Users :
    ( /\ AllIdle /\ user_usage[u] # NoRow
      /\ reports <= 1
      /\ events = Cardinality(delivered) /\ acked = delivered )
    => user_usage[u].free_seconds_total - user_usage[u].free_seconds_used
         + user_usage[u].paid_seconds_total - user_usage[u].paid_seconds_used
         + user_usage[u].topup_seconds_balance
       = 120 + AddedSeconds(Purchases(u)) - charged[u]

\* a request that found no ledger for its account on arrival and goes on to
\* create one: a positive usage report, a top-up or a subscription checkout
FirstOnAccount(w) ==
  /\ pc[w] = "done"
  /\ req[w].kind \in {"usage", "webhook"}
  /\ req[w].user_id # ""
  /\ pre[w].usage[req[w].user_id] = NoRow
  /\ IF req[w].kind = "usage" THEN req[w].sec >= 1
     ELSE /\ req[w].event.type = CHECKOUT_COMPLETED
          /\ \/ req[w].event.mode = "payment" /\ req[w].addSeconds > 0
             \/ req[w].event.mode = "subscription" /\ req[w].includedSeconds > 0

\* C22: every account has at most one ledger row, and a request that arrived
\* when the account had no ledger is not failed because a concurrent request
\* created the ledger first: its effect is not lost.
C22_OneLedgerPerAccount ==
  \A w \in Workers :
    FirstOnAccount(w)
    => /\ user_usage[req[w].user_id] # NoRow
       /\ resp[w].status # 500

\* a usage report that has just been answered, whatever it asked for
AnyReportDone(w) == pc[w] = "done" /\ req[w].kind = "usage"

\* the seconds left in a ledger, an absent ledger counting as its defaults
Left(row) ==
  IF row = NoRow THEN 120
  ELSE row.free_seconds_total - row.free_seconds_used
       + row.paid_seconds_total - row.paid_seconds_used
       + row.topup_seconds_balance

\* C23: for every requested seconds_used, negative and above 3600 included,
\* the charged_seconds of the answer and the seconds taken from the ledger
\* are between 0 and min(3600, max(0, requested)).
C23_RequestClamped ==
  \A w \in Workers :
    AnyReportDone(w)
    => LET n == req[w].seconds_used
           cap == IF n <= 0 THEN 0 ELSE IF n >= 3600 THEN 3600 ELSE n
           taken == Left(pre[w].usage[req[w].user_id])
                      - Left(user_usage[req[w].user_id])
       IN /\ 0 <= ChargedSeconds(resp[w]) /\ ChargedSeconds(resp[w]) <= cap
          /\ 0 <= taken /\ taken <= cap

C23_Witness ==
  \E w \in Workers :
    /\ AnyReportDone(w) /\ req[w].seconds_used = 5000
    /\ resp[w].status = 200 /\ resp[w].charged_seconds = 3600
    /\ Left(user_usage[req[w].user_id]) > 0

\* C24: a usage report whose seconds_used is zero, negative or missing is
\* answered {ok, ignored} in its first step: it never stands at a store call,
\* has read no row, and user_usage is as it was on arrival (a missing ledger
\* is not created).
C24_ZeroIgnored ==
  \A w \in Workers :
    (req[w].kind = "usage" /\ req[w].seconds_used <= 0)
    => /\ pc[w] = "done"
       /\ resp[w] = [status |-> 200, ok |-> TRUE, ignored |-> TRUE]
       /\ usage[w] = NoRow
       /\ user_usage = pre[w].usage
       /\ user_subscriptions = pre[w].subs

C24_Witness ==
  \E w \in Workers :
    /\ AnyReportDone(w) /\ req[w].seconds_used = -5
    /\ resp[w].status = 200
    /\ user_usage[req[w].user_id] = NoRow

\* C25: a positive usage report for an account without a ledger creates the
\* ledger (120, 0, 0, 0, 0) and charges it in the same call: a report of 50 s
\* is answered charged 50, buckets 50 / 0 / 0, remaining 70 and leaves
\* free_used 50; a longer report takes the 120 free seconds.
C25_CreateThenCharge ==
  \A w \in Workers :
    (AnyReportDone(w) /\ req[w].seconds_used >= 1
      /\ pre[w].usage[req[w].user_id] = NoRow)
    => LET n == IF req[w].seconds_used <= 120 THEN req[w].seconds_used ELSE 120
       IN /\ resp[w].status = 200
          /\ resp[w].charged_seconds = n
          /\ resp[w].buckets = [free |-> n, paid |-> 0, topup |-> 0]
          /\ resp[w].remaining_seconds = 120 - n
          /\ user_usage[req[w].user_id] =
               [free_seconds_total |-> 120, free_seconds_used |-> n,
                paid_seconds_total |-> 0, paid_seconds_used |-> 0,
                topup_seconds_balance |-> 0]

C25_Witness ==
  \E w \in Workers :
    /\ AnyReportDone(w) /\ req[w].seconds_used = 50
    /\ pre[w].usage[req[w].user_id] = NoRow
    /\ resp[w].status = 200 /\ resp[w].charged_seconds = 50
    /\ resp[w].buckets = [free |-> 50, paid |-> 0, topup |-> 0]
    /\ resp[w].remaining_seconds = 70

\* a lifecycle event whose subscription id no stored row carried on arrival
Untracked(w) ==
  \A u \in Users :
    \/ pre[w].subs[u] = NoRow
    \/ pre[w].subs[u].stripe_subscription_id # req[w].event.subscription

\* C26: a customer.subscription.updated or .deleted event whose subscription
\* id is carried by no stored row is answered 200 and changes no row of
\* user_subscriptions and no row of user_usage.
C26_UntrackedNoOp ==
  \A w \in Workers :
    ( /\ \/ LifecycleDone(w, SUBSCRIPTION_UPDATED)
         \/ LifecycleDone(w, SUBSCRIPTION_DELETED)
      /\ Untracked(w) )
    => /\ resp[w] = [status |-> 200, received |-> TRUE]
       /\ user_subscriptions = pre[w].subs
       /\ user_usage = pre[w].usage

C26_Witness ==
  \E w \in Workers :
    /\ LifecycleDone(w, SUBSCRIPTION_DELETED) /\ Untracked(w)
    /\ resp[w].status = 200
    /\ user_subscriptions["u1"] # NoRow
    /\ user_subscriptions["u1"].stripe_subscription_id = "sub_2"
    /\ user_subscriptions["u1"].is_active

\* a billing event whose writes on user_subscriptions and user_usage went
\* through and whose insert into analytics_events then failed
TrackFailed(w) ==
  /\ pc[w] = "done" /\ req[w].kind = "webhook"
  /\ error[w] = ""
  /\ tracking[w] \in {"error", "throws"}

\* C27: when the analytics insert returns an error or throws after the
\* writes of a billing event succeeded, the event is answered 200 and the
\* writes are in place (here: the row the event is about holds what the
\* event wrote).
C27_TrackingBestEffort ==
  \A w \in Workers :
    TrackFailed(w)
    => /\ resp[w] = [status |-> 200, received |-> TRUE]
       /\ CheckoutDone(w) =>
            /\ user_subscriptions[req[w].user_id].status = "active"
            /\ user_subscriptions[req[w].user_id].stripe_subscription_id
                 = req[w].event.subscription
            /\ user_usage[req[w].user_id].paid_seconds_total = req[w].includedSeconds
            /\ user_usage[req[w].user_id].paid_seconds_used = 0
       /\ TopupDone(w) =>
            user_usage[req[w].user_id].topup_seconds_balance
              = req[w].addSeconds
                  + IF pre[w].usage[req[w].user_id] = NoRow THEN 0
                    ELSE pre[w].usage[req[w].user_id].topup_seconds_balance
       /\ LifecycleDone(w, SUBSCRIPTION_UPDATED) =>
            user_subscriptions[target[w]].status = req[w].event.status
       /\ LifecycleDone(w, SUBSCRIPTION_DELETED) =>
            user_subscriptions[target[w]].status = "canceled"

C27_Witness ==
  \E w \in Workers :
    /\ TrackFailed(w) /\ tracking[w] = "throws"
    /\ CheckoutDone(w) /\ resp[w].status = 200
    /\ user_subscriptions[req[w].user_id].is_active
    /\ user_usage[req[w].user_id].paid_seconds_total = 18000

\* C28: a top-up checkout whose topup_pack is missing (0 here) or is not 5,
\* 10 or 20 is answered 200 without reading or writing user_usage: the ledger
\* is as on arrival and a missing ledger stays missing.
C28_UnknownPackNoOp ==
  \A w \in Workers :
    (TopupDone(w) /\ req[w].event.topup_pack \notin {5, 10, 20})
    => /\ resp[w] = [status |-> 200, received |-> TRUE]
       /\ usage[w] = NoRow
       /\ user_usage = pre[w].usage
       /\ user_subscriptions = pre[w].subs

C28_Witness ==
  \E w \in Workers :
    /\ TopupDone(w) /\ req[w].event.topup_pack = 7
    /\ resp[w].status = 200
    /\ user_usage[req[w].user_id] = NoRow

\* the plan each checkout must resolve to: the session's plan when it names
\* one (evt_plus, evt_override, evt_unknown); else the plan of the
\* subscription's metadata (evt_submeta); else the plan of its price
\* (evt_starter, evt_zero); what the session held ("" or "0") when the
\* retrieval throws or no source has a plan
ExpectedPlan(id, retrieved) ==
  IF id = "evt_plus" THEN "plus"
  ELSE IF id = "evt_override" THEN "starter"
  ELSE IF id = "evt_unknown" THEN "pro"
  ELSE IF id = "evt_submeta" /\ retrieved THEN "plus"
  ELSE IF id = "evt_starter" /\ retrieved THEN "starter"
  ELSE IF id = "evt_zero" THEN (IF retrieved THEN "plus" ELSE "0")
  ELSE ""

\* C29: the plan of a subscription checkout is the first one found in the
\* order session metadata, subscription metadata, price id; the subscription
\* object is read only when the session names no plan, the price only when
\* the subscription's metadata names none either, and what an earlier source
\* named is what is stored.
C29_PlanFallthrough ==
  \A w \in Workers :
    CheckoutDone(w)
    => LET id == req[w].id
           expected == ExpectedPlan(id, req[w].retrieved)
       IN /\ req[w].plan = expected
          /\ ("subscription" \in {req[w].consulted[i] : i \in DOMAIN req[w].consulted})
               <=> id \in {"evt_submeta", "evt_starter", "evt_zero", "evt_noprice"}
          /\ ("price" \in {req[w].consulted[i] : i \in DOMAIN req[w].consulted})
               <=> (req[w].retrieved /\ id \in {"evt_starter", "evt_zero", "evt_noprice"})
          /\ IF expected \in {"starter", "plus"}
               THEN /\ resp[w].status = 200
                    /\ user_subscriptions[req[w].user_id].plan = expected
               ELSE resp[w].status = 500

C29_Witness ==
  \E w \in Workers :
    /\ CheckoutDone(w) /\ req[w].id = "evt_override" /\ resp[w].status = 200
    /\ pre[w].subs[req[w].user_id] # NoRow
    /\ pre[w].subs[req[w].user_id].plan = "plus"
    /\ user_subscriptions[req[w].user_id].plan = "starter"
    /\ user_usage[req[w].user_id].paid_seconds_total = 7200

\* C30: for every usage report answered 200 with a charge, charged_seconds
\* is the sum of the three buckets, the stored ledger is the ledger found
\* (the defaults when none was found) with free_used and paid_used raised and
\* topup_balance lowered by exactly the bucket amounts, and remaining_seconds
\* is (free_total - free_used) + (paid_total - paid_used) + topup_balance of
\* the stored ledger, which is not negative.
C30_ChargeAccounting ==
  \A w \in Workers :
    (AnyReportDone(w) /\ resp[w].status = 200 /\ req[w].seconds_used >= 1)
    => LET b == resp[w].buckets
           found == pre[w].usage[req[w].user_id]
           old == IF found = NoRow
                    THEN [free_seconds_total |-> 120, free_seconds_used |-> 0,
                          paid_seconds_total |-> 0, paid_seconds_used |-> 0,
                          topup_seconds_balance |-> 0]
                    ELSE found
           new == user_usage[req[w].user_id]
       IN /\ resp[w].charged_seconds = b.free + b.paid + b.topup
          /\ b.free >= 0 /\ b.paid >= 0 /\ b.topup >= 0
          /\ new = [free_seconds_total |-> old.free_seconds_total,
                    free_seconds_used |-> old.free_seconds_used + b.free,
                    paid_seconds_total |-> old.paid_seconds_total,
                    paid_seconds_used |-> old.paid_seconds_used + b.paid,
                    topup_seconds_balance |-> old.topup_seconds_balance - b.topup]
          /\ resp[w].usage = new
          /\ resp[w].remaining_seconds =
               (new.free_seconds_total - new.free_seconds_used)
               + (new.paid_seconds_total - new.paid_seconds_used)
               + new.topup_seconds_balance
          /\ resp[w].remaining_seconds >= 0

C30_Witness ==
  \E w \in Workers :
    /\ AnyReportDone(w) /\ resp[w].status = 200 /\ req[w].seconds_used = 3600
    /\ resp[w].buckets.paid > 0 /\ resp[w].buckets.topup > 0
    /\ resp[w].remaining_seconds > 0
    /\ user_usage[req[w].user_id].paid_seconds_used
         = user_usage[req[w].user_id].paid_seconds_total

\* the account a checkout of the subscription is made for
AccountOfSubscription(id) ==
  (CHOOSE e \in AccountEvents :
     e.type = CHECKOUT_COMPLETED /\ e.subscription = id).user_id

\* the account the request of worker w is about
AccountOf(w) ==
  IF req[w].kind = "usage" THEN req[w].user_id
  ELSE IF req[w].event.type = CHECKOUT_COMPLETED THEN req[w].event.user_id
  ELSE AccountOfSubscription(req[w].event.subscription)

\* worker w takes a step of its request
Steps(w) == pc[w] \notin {"idle", "done"} /\ pc'[w] # pc[w]

\* C31: operations on different accounts are independent: whenever the
\* ledger or the subscription row of an account changes, the step that
\* changes it belongs to a usage report or billing event of that same
\* account, whatever requests of other accounts are in flight.
C31_AccountsIndependent ==
  [][\A u \in Users :
       (user_usage'[u] # user_usage[u]
          \/ user_subscriptions'[u] # user_subscriptions[u])
       => \E w \in Workers : Steps(w) /\ AccountOf(w) = u]_vars

\* a request has changed the rows of its account while a request of the
\* other account, which has rows too, is in flight
C31_Witness ==
  \E w, x \in Workers :
    /\ pc[w] = "done" /\ pc[x] \notin {"idle", "done"}
    /\ AccountOf(w) # AccountOf(x)
    /\ user_usage[AccountOf(w)] # pre[w].usage[AccountOf(w)]
    /\ user_usage[AccountOf(x)] # NoRow
    /\ user_subscriptions[AccountOf(x)] # NoRow

\* a verified checkout.session.completed without an account id, answered
AnonymousDone(w) ==
  /\ pc[w] = "done" /\ req[w].kind = "webhook"
  /\ req[w].event.type = CHECKOUT_COMPLETED
  /\ req[w].event.user_id = ""

\* C32: a checkout.session.completed event without an account id in its
\* metadata is answered 200 (no retry is requested), has read no row, and
\* leaves user_subscriptions and user_usage as they were on arrival.
C32_AnonymousAcknowledged ==
  \A w \in Workers :
    AnonymousDone(w) =>
      /\ resp[w] = Received
      /\ usage[w] = NoRow
      /\ user_subscriptions = pre[w].subs
      /\ user_usage = pre[w].usage

\* an anonymous subscription checkout answered on an account that has a
\* ledger and a subscription row
C32_Witness ==
  \E w \in Workers :
    /\ AnonymousDone(w)
    /\ req[w].event.mode = "subscription"
    /\ \E u \in Users : user_usage[u] # NoRow /\ user_subscriptions[u] # NoRow

\* an answered subscription checkout whose session names no plan
PlanAbsent(w) == CheckoutDone(w) /\ req[w].event.plan = ""

\* the delivery before this one was the same event, and it was answered 500
Redelivered(w) == lastReq.id = req[w].id /\ lastReq.status = 500

\* C33: a subscription checkout without a plan in the session metadata whose
\* lookup of the subscription object fails is answered 500 having read and
\* written no row; the redelivery of the same event with the lookup
\* succeeding leaves what one delivery with a successful lookup leaves: the
\* subscription row activated with the plan the subscription object names
\* and the ledger found with paid_seconds_total set to that plan's seconds
\* and paid_seconds_used 0, or nothing written when the object names no plan.
C33_LookupFailure ==
  \A w \in Workers :
    /\ (PlanAbsent(w) /\ ~req[w].retrieved)
         => /\ resp[w] = Failed
            /\ usage[w] = NoRow
            /\ user_subscriptions = pre[w].subs
            /\ user_usage = pre[w].usage
    /\ (PlanAbsent(w) /\ req[w].retrieved /\ Redelivered(w))
         => LET u == req[w].user_id
                plan == ExpectedPlan(req[w].id, TRUE)
                found == IF pre[w].usage[u] = NoRow THEN DefaultUsageRow
                         ELSE pre[w].usage[u]
            IN IF plan \in {"starter", "plus"}
                 THEN /\ resp[w] = Received
                      /\ user_subscriptions[u] =
                           [stripe_customer_id |-> req[w].event.customer,
                            stripe_subscription_id |-> req[w].event.subscription,
                            status |-> "active", is_active |-> TRUE,
                            plan |-> plan, current_period_end |-> 0]
                      /\ user_usage[u] =
                           [found EXCEPT
                              !.paid_seconds_total = includedSecondsForPlan(plan),
                              !.paid_seconds_used = 0]
                 ELSE /\ resp[w] = Failed
                      /\ user_subscriptions = pre[w].subs
                      /\ user_usage = pre[w].usage

\* the redelivery of a checkout that failed on the lookup has activated the
\* plan of the subscription object
C33_Witness ==
  \E w \in Workers :
    /\ PlanAbsent(w) /\ req[w].retrieved /\ Redelivered(w)
    /\ resp[w] = Received
    /\ user_subscriptions[req[w].user_id].plan = "plus"

\* an entitlement check answered without a failed call, for an account that
\* is not premium and has a ledger
PlainSessionDone(w) ==
  /\ SessionDone(w) /\ error[w] = ""
  /\ ~isPremium(pre[w].subs[req[w].user_id])
  /\ pre[w].usage[req[w].user_id] # NoRow

\* C34: for a non-premium account the entitlement check answers 402 exactly
\* when a positive usage report on the same ledger would be answered 402
\* (nothing left in the free, paid and top-up buckets together), and the
\* remaining_seconds it returns otherwise is the sum of what the three
\* buckets have left.
C34_SessionAgreesWithCharger ==
  \A w \in Workers :
    PlainSessionDone(w)
    => LET row == pre[w].usage[req[w].user_id]
           left == (row.free_seconds_total - row.free_seconds_used)
                     + (row.paid_seconds_total - row.paid_seconds_used)
                     + row.topup_seconds_balance
       IN /\ resp[w].status = 402 <=> left <= 0
          /\ resp[w].status = 200 => resp[w].remaining_seconds = left

\* worker w writes the row its lifecycle event found
LifecycleWrite(w) ==
  /\ pc[w] \in {"updated_update", "deleted_update"}
  /\ pc'[w] # pc[w]
  /\ user_subscriptions' # user_subscriptions

\* C35: a customer.subscription.updated or .deleted event for subscription
\* id S writes only a row whose stored stripe_subscription_id is S at the
\* moment of the write: once a checkout has replaced S by S', a lifecycle
\* event for S does not alter the row of S', however its lookup and update
\* interleave with the checkout.
C35_LateLifecycle ==
  [][\A w \in Workers :
       LifecycleWrite(w)
       => user_subscriptions[target[w]].stripe_subscription_id
            = req[w].event.subscription]_vars

\* the row the checkout of worker w writes to user_subscriptions
ActiveRow(w) ==
  [stripe_customer_id |-> req[w].event.customer,
   stripe_subscription_id |-> req[w].event.subscription,
   status |-> "active", is_active |-> TRUE,
   plan |-> req[w].plan, current_period_end |-> 0]

\* a subscription checkout that wrote the subscription row and then failed
\* on the select, insert or update of the ledger
PartialCheckout(w) ==
  /\ CheckoutDone(w)
  /\ error[w] \in {"checkout_select", "checkout_insert", "checkout_update"}

\* the redelivery, with every call succeeding, of a checkout that was answered
\* 500 after it had written the subscription row
Repaired(w) ==
  /\ CheckoutDone(w) /\ error[w] = "" /\ Redelivered(w)
  /\ ~RefuseActivation(req[w].includedSeconds)
  /\ pre[w].subs[req[w].user_id] = ActiveRow(w)

\* C36: a subscription checkout that has written status active and then
\* fails on the ledger is answered 500 and leaves the ledger as it found it;
\* its redelivery, with every write succeeding and no request in between,
\* leaves what one successful delivery leaves: the active row of the plan and
\* the ledger found with paid_seconds_total the plan's seconds and
\* paid_seconds_used 0.
C36_RetryRepairs ==
  \A w \in Workers :
    /\ PartialCheckout(w)
         => /\ resp[w] = Failed
            /\ user_usage = pre[w].usage
            /\ user_subscriptions[req[w].user_id] = ActiveRow(w)
    /\ Repaired(w)
         => LET u == req[w].user_id
                found == IF pre[w].usage[u] = NoRow THEN DefaultUsageRow
                         ELSE pre[w].usage[u]
            IN /\ resp[w] = Received
               /\ user_subscriptions[u] = ActiveRow(w)
               /\ user_usage[u] =
                    [found EXCEPT
                       !.paid_seconds_total = includedSecondsForPlan(req[w].plan),
                       !.paid_seconds_used = 0]

\* a redelivery has completed the ledger of an account that had a ledger without
\* paid seconds before the checkout
C36_Witness ==
  \E w \in Workers :
    /\ Repaired(w)
    /\ pre[w].usage[req[w].user_id] # NoRow
    /\ pre[w].usage[req[w].user_id].paid_seconds_total = 0
    /\ user_usage[req[w].user_id].paid_seconds_total > 0

\* an answered request of any kind that found a ledger for its account
FoundLedger(w) ==
  /\ pc[w] = "done" /\ req[w].kind \in {"usage", "webhook"}
  /\ req[w].user_id # ""
  /\ pre[w].usage[req[w].user_id] # NoRow

\* C37: each operation changes only its own ledger fields. A usage report
\* leaves free_seconds_total and paid_seconds_total, does not increase
\* topup_seconds_balance and does not decrease free_seconds_used or
\* paid_seconds_used; a top-up changes only topup_seconds_balance and does
\* not decrease it; a subscription checkout on an existing ledger changes
\* only paid_seconds_total and paid_seconds_used; and no operation changes
\* the free_seconds_total of a ledger that exists.
C37_OwnFields ==
  \A w \in Workers :
    LET u == req[w].user_id
        old == pre[w].usage[u]
        new == user_usage[u]
    IN /\ (FoundLedger(w) /\ req[w].kind = "usage")
            => /\ new.free_seconds_total = old.free_seconds_total
               /\ new.paid_seconds_total = old.paid_seconds_total
               /\ new.topup_seconds_balance <= old.topup_seconds_balance
               /\ new.free_seconds_used >= old.free_seconds_used
               /\ new.paid_seconds_used >= old.paid_seconds_used
       /\ (FoundLedger(w) /\ TopupDone(w))
            => /\ new = [old EXCEPT !.topup_seconds_balance = new.topup_seconds_balance]
               /\ new.topup_seconds_balance >= old.topup_seconds_balance
       /\ (FoundLedger(w) /\ CheckoutDone(w))
            => new = [old EXCEPT !.paid_seconds_total = new.paid_seconds_total,
                                 !.paid_seconds_used = new.paid_seconds_used]
       /\ FoundLedger(w)
            => new.free_seconds_total = old.free_seconds_total

\* a subscription checkout has set the allotment of an account whose ledger
\* held used free seconds and a top-up balance, and has left both
C37_Witness ==
  \E w \in Workers :
    /\ FoundLedger(w) /\ CheckoutDone(w)
    /\ resp[w] = Received
    /\ user_usage[req[w].user_id].paid_seconds_total > 0
    /\ user_usage[req[w].user_id].free_seconds_used > 0
    /\ user_usage[req[w].user_id].topup_seconds_balance > 0

====
